---- MODULE Spec2Model ----
(***************************************************************************)
(* A model of src/src/main.rs: per-station statistics over a file of       *)
(* `station;temperature` lines, computed by worker threads that claim      *)
(* chunks with an atomic cursor, read each chunk with a look-back margin,  *)
(* trim it to line boundaries, aggregate it locally and merge the local    *)
(* map into a mutex-guarded global map.                                    *)
(*                                                                         *)
(* Bytes are one-character strings; a buffer or a slice is a sequence of   *)
(* bytes.  Offsets are 0-based as in the source: byte i of a buffer b is   *)
(* b[i + 1].  Option<T> is a sequence of length 0 (None) or 1 (Some(x)).   *)
(* Temperatures are exact numbers in tenths (10.0 is 100): the input sets  *)
(* carry at most one fractional digit, so every sum is exact.              *)
(***************************************************************************)
EXTENDS Integers, Sequences, FiniteSets, TLC

VARIABLES
    file,           \* the bytes of the input file (immutable)
    CHUNK_SIZE,     \* C, fixed during a run
    CHUNK_OVERLAP,  \* O, fixed during a run
    num_threads,    \* num_cpus::get()
    offset,         \* the shared atomic cursor
    global_map,     \* the map inside Arc<Mutex<..>>: station text -> Records
    lock,           \* holder of the mutex: 0 (free) or a worker
    arc,            \* strong count of the Arc
    main_pc,        \* position of the main thread in process_file_parallel
    spawned,        \* number of workers spawned so far
    ret,            \* outcome of process_file_parallel
    result,         \* the map it returns
    pc,             \* position of each worker
    chunk_start,    \* each worker's last claimed chunk_start
    buffer,         \* each worker's read buffer, &mut buffer[..read_size]
    chunk,          \* each worker's slice of the buffer, as file offsets [lo, hi)
    local_map,      \* each worker's chunk-local map: station bytes -> Records
    claimed,        \* the claims so far: who got which chunk_start, in order
    processed,      \* the slices handed to process_chunk so far
    merged,         \* the chunk_start values whose local map was merged, in order
    stderr,         \* the read errors logged by eprintln!
    rec_vals,       \* Records harness: values not yet consumed
    rec_cur,        \* Records harness: the Records of the group being built
    rec_parts,      \* Records harness: the finished groups
    rec_whole,      \* Records harness: one Records over all consumed values
    rec_acc,        \* Records harness: the groups merged so far
    scan_buf,       \* newline-scan harness: the buffer
    scan_res        \* newline-scan harness: <<>> before the call, <<r>> after

vars == <<file, CHUNK_SIZE, CHUNK_OVERLAP, num_threads, offset, global_map,
          lock, arc, main_pc, spawned, ret, result, pc, chunk_start, buffer,
          chunk, local_map, claimed, processed, merged, stderr,
          rec_vals, rec_cur, rec_parts, rec_whole, rec_acc, scan_buf, scan_res>>

par_vars == <<file, CHUNK_SIZE, CHUNK_OVERLAP, num_threads, offset, global_map,
              lock, arc, main_pc, spawned, ret, result, pc, chunk_start,
              buffer, chunk, local_map, claimed, processed, merged, stderr>>

rec_vars == <<rec_vals, rec_cur, rec_parts, rec_whole, rec_acc>>

scan_vars == <<scan_buf, scan_res>>

(***************************************************************************)
(* Bounds.                                                                 *)
(***************************************************************************)
MaxThreads == 2
MaxLines == 3
MaxVals == 4
MaxBufLen == 130

(***************************************************************************)
(* Bytes and slices.                                                       *)
(***************************************************************************)
NL == "\n"
SEMI == ";"
Digits == {"0", "1", "2", "3", "4", "5", "6", "7", "8", "9"}
Whitespace == {" "}
\* bytes that can appear in no well-formed UTF-8 text
InvalidBytes == {"xFE", "xFF"}
REPLACEMENT == "uFFFD"

None == <<>>
Some(x) == <<x>>

\* &buf[a..b]
Slice(buf, a, b) == SubSeq(buf, a + 1, b)

Min(S) == CHOOSE x \in S : \A y \in S : x <= y
Max(S) == CHOOSE x \in S : \A y \in S : x >= y

\* memchr::memchr(needle, haystack): offset of the first occurrence
memchr(needle, haystack) ==
    LET hits == {i \in 0..(Len(haystack) - 1) : haystack[i + 1] = needle}
    IN  IF hits = {} THEN None ELSE Some(Min(hits))

\* memchr::memrchr(needle, haystack): offset of the last occurrence
memrchr(needle, haystack) ==
    LET hits == {i \in 0..(Len(haystack) - 1) : haystack[i + 1] = needle}
    IN  IF hits = {} THEN None ELSE Some(Max(hits))

(***************************************************************************)
(* Records.                                                                *)
(***************************************************************************)
new(temp) == [count |-> 1, min |-> temp, max |-> temp, sum |-> temp]

\* update that forgets to raise the maximum
update_keep_max(self, temp) ==
    [count |-> self.count + 1,
     sum   |-> self.sum + temp,
     min   |-> IF temp < self.min THEN temp ELSE self.min,
     max   |-> self.max]

update(self, temp) ==
    [count |-> self.count + 1,
     sum   |-> self.sum + temp,
     min   |-> IF temp < self.min THEN temp ELSE self.min,
     max   |-> IF temp > self.max THEN temp ELSE self.max]

\* merge that forgets the other side's minimum
merge_keep_min(self, other) ==
    [count |-> self.count + other.count,
     sum   |-> self.sum + other.sum,
     min   |-> self.min,
     max   |-> IF other.max > self.max THEN other.max ELSE self.max]

merge(self, other) ==
    [count |-> self.count + other.count,
     sum   |-> self.sum + other.sum,
     min   |-> IF other.min < self.min THEN other.min ELSE self.min,
     max   |-> IF other.max > self.max THEN other.max ELSE self.max]

(***************************************************************************)
(* parse_temp: UTF-8 check, trim, then the f64 grammar over the bytes of   *)
(* the model: [+-]? (digits | digits . digits* | digits* . digits).        *)
(***************************************************************************)
DigitVal(d) ==
    CASE d = "0" -> 0 [] d = "1" -> 1 [] d = "2" -> 2 [] d = "3" -> 3
      [] d = "4" -> 4 [] d = "5" -> 5 [] d = "6" -> 6 [] d = "7" -> 7
      [] d = "8" -> 8 [] d = "9" -> 9

RECURSIVE DecVal(_)
DecVal(ds) ==
    IF ds = <<>> THEN 0
    ELSE 10 * DecVal(SubSeq(ds, 1, Len(ds) - 1)) + DigitVal(ds[Len(ds)])

\* str::trim
trim(s) ==
    LET keep == {i \in 1..Len(s) : s[i] \notin Whitespace}
    IN  IF keep = {} THEN <<>> ELSE SubSeq(s, Min(keep), Max(keep))

\* str::parse::<f64> of an unsigned decimal, in tenths
ParseDecimal(s) ==
    LET dots == {i \in 1..Len(s) : s[i] = "."}
        dot  == IF dots = {} THEN Len(s) + 1 ELSE Min(dots)
        ip   == SubSeq(s, 1, dot - 1)
        fp   == SubSeq(s, dot + 1, Len(s))
    IN  IF /\ \A i \in 1..Len(s) : s[i] \in Digits \cup {"."}
           /\ Cardinality(dots) <= 1
           /\ Len(ip) + Len(fp) >= 1
        THEN Some(10 * DecVal(ip) + (IF fp = <<>> THEN 0 ELSE DigitVal(fp[1])))
        ELSE None

\* str::parse::<f64>
ParseF64(s) ==
    IF s = <<>> THEN None
    ELSE IF s[1] \in {"+", "-"}
         THEN LET m == ParseDecimal(Tail(s))
              IN  IF m = None THEN None
                  ELSE Some(IF s[1] = "-" THEN 0 - m[1] ELSE m[1])
         ELSE ParseDecimal(s)

parse_temp(bytes) ==
    IF \E i \in 1..Len(bytes) : bytes[i] \in InvalidBytes
    THEN None
    ELSE ParseF64(trim(bytes))

(***************************************************************************)
(* find_next_newline_simd.                                                 *)
(***************************************************************************)
simd_size == 64

\* Mask::to_bitmask of simd_eq(splat(b'\n')): the set of the bits that are set
to_bitmask(lane) == {j \in 0..(Len(lane) - 1) : lane[j + 1] = NL}

\* the highest set bit instead of the lowest
leading_bit(bits) == Max(bits)

\* u64::trailing_zeros of a non-zero mask
trailing_zeros(bits) == Min(bits)

\* the scalar tail: for i in index..buf.len()
RECURSIVE scalar_tail(_, _)
scalar_tail(buf, i) ==
    IF i >= Len(buf) THEN None
    ELSE IF buf[i + 1] = NL THEN Some(i)
    ELSE scalar_tail(buf, i + 1)

RECURSIVE simd_loop(_, _)
simd_loop(buf, index) ==
    IF index + simd_size <= Len(buf)
    THEN LET bits == to_bitmask(Slice(buf, index, index + simd_size))
         IN  IF bits # {} THEN Some(index + trailing_zeros(bits))
             ELSE simd_loop(buf, index + simd_size)
    ELSE scalar_tail(buf, index)

find_next_newline_simd(buf) == simd_loop(buf, 0)

(***************************************************************************)
(* process_chunk.                                                          *)
(***************************************************************************)
EmptyMap == [k \in {} |-> 0]

\* map.entry(k).and_modify(|e| e.update(temp)).or_insert_with(|| new(temp))
entry_update(map, k, temp) ==
    IF k \in DOMAIN map
    THEN [map EXCEPT ![k] = update(map[k], temp)]
    ELSE [x \in DOMAIN map \cup {k} |-> IF x = k THEN new(temp) ELSE map[x]]

\* the body of the while loop for one line
process_line(map, line) ==
    LET semi == memchr(SEMI, line)
    IN  IF semi = None THEN map
        ELSE LET station    == Slice(line, 0, semi[1])
                 temp_bytes == Slice(line, semi[1] + 1, Len(line))
                 temp       == parse_temp(temp_bytes)
             IN  IF temp = None THEN map
                 ELSE entry_update(map, station, temp[1])

RECURSIVE chunk_loop(_, _, _)
chunk_loop(c, start, map) ==
    IF start < Len(c)
    THEN LET nl   == find_next_newline_simd(Slice(c, start, Len(c)))
             end  == IF nl = None THEN Len(c) ELSE start + nl[1]
             line == Slice(c, start, end)
         IN  chunk_loop(c, end + 1, process_line(map, line))
    ELSE map

process_chunk(c) == chunk_loop(c, 0, EmptyMap)

(***************************************************************************)
(* The inputs: files built from a small set of lines, and (C, O) pairs.    *)
(***************************************************************************)
LineSet ==
    { <<"A", ";", "1">>,
      <<"B", ";", "-", "2">>,
      <<"A", ";", "1", "2">>,
      <<"C", ";", "1", ";", "2">> }

RECURSIVE JoinLines(_)
JoinLines(ls) ==
    IF ls = <<>> THEN <<>> ELSE ls[1] \o <<NL>> \o JoinLines(Tail(ls))

LineSeqs == UNION {[1..k -> LineSet] : k \in 0..MaxLines}

ExampleFiles ==
    { <<"A", "B", ";", "1", ".", "0", NL, "C", "D", ";", "2", ".", "0", NL>>,
      <<"A", ";", "1", "0", ".", "0", NL, "B", ";", "-", "5", ".", "0", NL,
        "A", ";", "2", "0", ".", "0", NL>>,
      <<"A", ";", "1", NL, "C", ";", "x", NL, "B", ";", " ", "2", NL>>,
      <<"A", "B", NL, "A", ";", "1", NL, "A", ";", NL, ";", "1", NL>>,
      <<"xFF", ";", "1", NL, "xFE", ";", "2", NL, "A", ";", "xFF", NL>> }

\* every file ends with a newline or with an unterminated last line
Files ==
    {JoinLines(ls) : ls \in LineSeqs}
      \cup {SubSeq(JoinLines(ls), 1, Len(JoinLines(ls)) - 1) :
                ls \in LineSeqs \ {<<>>}}
      \cup ExampleFiles

\* <<CHUNK_SIZE, CHUNK_OVERLAP>>
ChunkParams == {<<6, 6>>, <<10, 8>>, <<4, 1>>}

Workers == 1..MaxThreads

(***************************************************************************)
(* process_file_parallel: the main thread.                                 *)
(***************************************************************************)
file_size == Len(file)

ParInit ==
    /\ file \in Files
    /\ \E p \in ChunkParams : CHUNK_SIZE = p[1] /\ CHUNK_OVERLAP = p[2]
    /\ num_threads \in 1..MaxThreads
    /\ offset = 0
    /\ global_map = EmptyMap
    /\ lock = 0
    /\ arc = 1
    /\ main_pc = "spawn"
    /\ spawned = 0
    /\ ret = "running"
    /\ result = EmptyMap
    /\ pc = [w \in Workers |-> "unspawned"]
    /\ chunk_start = [w \in Workers |-> 0]
    /\ buffer = [w \in Workers |-> <<>>]
    /\ chunk = [w \in Workers |-> [lo |-> 0, hi |-> 0]]
    /\ local_map = [w \in Workers |-> EmptyMap]
    /\ claimed = <<>>
    /\ processed = {}
    /\ merged = <<>>
    /\ stderr = <<>>

\* the harness variables while process_file_parallel runs
ParIdle ==
    /\ file = <<>>
    /\ CHUNK_SIZE = 1
    /\ CHUNK_OVERLAP = 1
    /\ num_threads = 1
    /\ offset = 0
    /\ global_map = EmptyMap
    /\ lock = 0
    /\ arc = 1
    /\ main_pc = "idle"
    /\ spawned = 0
    /\ ret = "running"
    /\ result = EmptyMap
    /\ pc = [w \in Workers |-> "unspawned"]
    /\ chunk_start = [w \in Workers |-> 0]
    /\ buffer = [w \in Workers |-> <<>>]
    /\ chunk = [w \in Workers |-> [lo |-> 0, hi |-> 0]]
    /\ local_map = [w \in Workers |-> EmptyMap]
    /\ claimed = <<>>
    /\ processed = {}
    /\ merged = <<>>
    /\ stderr = <<>>

RecIdle ==
    /\ rec_vals = <<>>
    /\ rec_cur = None
    /\ rec_parts = <<>>
    /\ rec_whole = None
    /\ rec_acc = None

ScanIdle ==
    /\ scan_buf = <<>>
    /\ scan_res = <<>>

\* for _ in 0..num_threads: Arc::clone, then s.spawn
Spawn ==
    /\ main_pc = "spawn"
    /\ spawned < num_threads
    /\ arc' = arc + 1
    /\ spawned' = spawned + 1
    /\ pc' = [pc EXCEPT ![spawned + 1] = "claim"]
    /\ main_pc' = IF spawned + 1 = num_threads THEN "join" ELSE "spawn"
    /\ UNCHANGED <<file, CHUNK_SIZE, CHUNK_OVERLAP, num_threads, offset,
                   global_map, lock, ret, result, chunk_start, buffer, chunk,
                   local_map, claimed, processed, merged, stderr>>

\* a join that does not wait for the workers
ScopeJoinNoWait ==
    /\ main_pc = "join"
    /\ main_pc' = "unwrap"
    /\ UNCHANGED <<file, CHUNK_SIZE, CHUNK_OVERLAP, num_threads, offset,
                   global_map, lock, arc, spawned, ret, result, pc,
                   chunk_start, buffer, chunk, local_map, claimed, processed,
                   merged, stderr>>

\* thread::scope returns once every spawned thread has been joined
ScopeJoin ==
    /\ main_pc = "join"
    /\ \A w \in 1..num_threads : pc[w] = "done"
    /\ main_pc' = "unwrap"
    /\ UNCHANGED <<file, CHUNK_SIZE, CHUNK_OVERLAP, num_threads, offset,
                   global_map, lock, arc, spawned, ret, result, pc,
                   chunk_start, buffer, chunk, local_map, claimed, processed,
                   merged, stderr>>

\* Arc::try_unwrap(global_map).expect(..).into_inner().unwrap(); Ok(global_map)
Unwrap ==
    /\ main_pc = "unwrap"
    /\ main_pc' = "done"
    /\ IF arc = 1
       THEN ret' = "Ok" /\ result' = global_map
       ELSE ret' = "panic" /\ result' = result
    /\ UNCHANGED <<file, CHUNK_SIZE, CHUNK_OVERLAP, num_threads, offset,
                   global_map, lock, arc, spawned, pc, chunk_start, buffer,
                   chunk, local_map, claimed, processed, merged, stderr>>

(***************************************************************************)
(* process_file_parallel: the worker loop.                                 *)
(***************************************************************************)
\* a load and a store that loses the addition
fetch_add_lost(cur, n) == [old |-> cur, new |-> cur]

\* a cursor that advances by two chunks per claim
fetch_add_double(cur, n) == [old |-> cur, new |-> cur + n + n]

\* AtomicU64::fetch_add: the previous value and the stored value
fetch_add(cur, n) == [old |-> cur, new |-> cur + n]

\* a claim whose end test is > instead of >=
ClaimOffByOne(w) ==
    /\ pc[w] = "claim"
    /\ LET r == fetch_add(offset, CHUNK_SIZE)
       IN  /\ offset' = r.new
           /\ chunk_start' = [chunk_start EXCEPT ![w] = r.old]
           /\ claimed' = Append(claimed, [worker |-> w, start |-> r.old])
           /\ IF r.old > file_size
              THEN pc' = [pc EXCEPT ![w] = "done"] /\ arc' = arc - 1
              ELSE pc' = [pc EXCEPT ![w] = "read"] /\ arc' = arc
    /\ UNCHANGED <<file, CHUNK_SIZE, CHUNK_OVERLAP, num_threads, global_map,
                   lock, main_pc, spawned, ret, result, buffer, chunk,
                   local_map, processed, merged, stderr>>

\* let chunk_start = offset.fetch_add(CHUNK_SIZE); if >= file_size { break }
Claim(w) ==
    /\ pc[w] = "claim"
    /\ LET r == fetch_add(offset, CHUNK_SIZE)
       IN  /\ offset' = r.new
           /\ chunk_start' = [chunk_start EXCEPT ![w] = r.old]
           /\ claimed' = Append(claimed, [worker |-> w, start |-> r.old])
           /\ IF r.old >= file_size
              THEN pc' = [pc EXCEPT ![w] = "done"] /\ arc' = arc - 1
              ELSE pc' = [pc EXCEPT ![w] = "read"] /\ arc' = arc
    /\ UNCHANGED <<file, CHUNK_SIZE, CHUNK_OVERLAP, num_threads, global_map,
                   lock, main_pc, spawned, ret, result, buffer, chunk,
                   local_map, processed, merged, stderr>>

read_start(cs) == IF cs = 0 THEN 0 ELSE cs - CHUNK_OVERLAP

\* a read size that is not clamped to the end of the file
read_size_unclamped(cs) == CHUNK_SIZE + CHUNK_OVERLAP

\* min(CHUNK_SIZE + CHUNK_OVERLAP, file_size - read_start)
read_size(cs) ==
    IF CHUNK_SIZE + CHUNK_OVERLAP < file_size - read_start(cs)
    THEN CHUNK_SIZE + CHUNK_OVERLAP
    ELSE file_size - read_start(cs)

\* file.read_exact_at(buffer, read_start) returns Ok
Read(w) ==
    /\ pc[w] = "read"
    /\ LET rs == read_start(chunk_start[w])
           n  == read_size(chunk_start[w])
       IN  /\ buffer' = [buffer EXCEPT ![w] = Slice(file, rs, rs + n)]
           /\ chunk' = [chunk EXCEPT ![w] = [lo |-> rs, hi |-> rs + n]]
    /\ pc' = [pc EXCEPT ![w] = "trim"]
    /\ UNCHANGED <<file, CHUNK_SIZE, CHUNK_OVERLAP, num_threads, offset,
                   global_map, lock, arc, main_pc, spawned, ret, result,
                   chunk_start, local_map, claimed, processed, merged, stderr>>

\* a read error that skips the chunk and goes on to the next claim
ReadFailContinue(w) ==
    /\ pc[w] = "read"
    /\ stderr' = Append(stderr, [worker |-> w,
                                 position |-> read_start(chunk_start[w])])
    /\ pc' = [pc EXCEPT ![w] = "claim"]
    /\ UNCHANGED <<file, CHUNK_SIZE, CHUNK_OVERLAP, num_threads, offset,
                   global_map, lock, arc, main_pc, spawned, ret, result,
                   chunk_start, buffer, chunk, local_map, claimed, processed,
                   merged>>

\* file.read_exact_at(buffer, read_start) returns Err: eprintln!, break
ReadFail(w) ==
    /\ pc[w] = "read"
    /\ stderr' = Append(stderr, [worker |-> w,
                                 position |-> read_start(chunk_start[w])])
    /\ pc' = [pc EXCEPT ![w] = "done"]
    /\ arc' = arc - 1
    /\ UNCHANGED <<file, CHUNK_SIZE, CHUNK_OVERLAP, num_threads, offset,
                   global_map, lock, main_pc, spawned, ret, result,
                   chunk_start, buffer, chunk, local_map, claimed, processed,
                   merged>>

\* if chunk_start != 0 { memrchr(b'\n', chunk): chunk = &chunk[pos + 1..] }
\* None when the worker takes `continue`
start_trim(cs, c) ==
    IF cs # 0
    THEN LET pos == memrchr(NL, c)
         IN  IF pos = None THEN None
             ELSE Some([lo |-> pos[1] + 1, hi |-> Len(c)])
    ELSE Some([lo |-> 0, hi |-> Len(c)])

\* if let Some(pos) = memrchr(b'\n', chunk) { chunk = &chunk[..pos] }
end_trim(c, r) ==
    LET pos == memrchr(NL, Slice(c, r.lo, r.hi))
    IN  IF pos = None THEN r ELSE [lo |-> r.lo, hi |-> r.lo + pos[1]]

\* the two trims, then let local_map = process_chunk(chunk)
Process(w) ==
    /\ pc[w] = "trim"
    /\ LET cs == chunk_start[w]
           rs == read_start(cs)
           st == start_trim(cs, buffer[w])
       IN  IF st = None
           THEN /\ pc' = [pc EXCEPT ![w] = "claim"]
                /\ UNCHANGED <<chunk, local_map, processed>>
           ELSE LET r == end_trim(buffer[w], st[1])
                    c == [lo |-> rs + r.lo, hi |-> rs + r.hi]
                IN  /\ chunk' = [chunk EXCEPT ![w] = c]
                    /\ local_map' = [local_map EXCEPT
                           ![w] = process_chunk(Slice(buffer[w], r.lo, r.hi))]
                    /\ processed' = processed \cup
                           {[start |-> cs, lo |-> c.lo, hi |-> c.hi]}
                    /\ pc' = [pc EXCEPT ![w] = "lock"]
    /\ UNCHANGED <<file, CHUNK_SIZE, CHUNK_OVERLAP, num_threads, offset,
                   global_map, lock, arc, main_pc, spawned, ret, result,
                   chunk_start, buffer, claimed, merged, stderr>>

\* a lock that is taken without waiting for its holder
LockNoWait(w) ==
    /\ pc[w] = "lock"
    /\ lock' = w
    /\ pc' = [pc EXCEPT ![w] = "merge"]
    /\ UNCHANGED <<file, CHUNK_SIZE, CHUNK_OVERLAP, num_threads, offset,
                   global_map, arc, main_pc, spawned, ret, result,
                   chunk_start, buffer, chunk, local_map, claimed, processed,
                   merged, stderr>>

\* let mut global_map = global_map.lock().unwrap()
Lock(w) ==
    /\ pc[w] = "lock"
    /\ lock = 0
    /\ lock' = w
    /\ pc' = [pc EXCEPT ![w] = "merge"]
    /\ UNCHANGED <<file, CHUNK_SIZE, CHUNK_OVERLAP, num_threads, offset,
                   global_map, arc, main_pc, spawned, ret, result,
                   chunk_start, buffer, chunk, local_map, claimed, processed,
                   merged, stderr>>

\* String::from_utf8_lossy(station_bytes).to_string(): a byte that is not
\* valid UTF-8 becomes U+FFFD
from_utf8_lossy(bytes) ==
    [i \in 1..Len(bytes) |->
        IF bytes[i] \in InvalidBytes THEN REPLACEMENT ELSE bytes[i]]

\* an insert that overwrites the entry instead of merging into it
entry_overwrite(map, station, records) ==
    [x \in DOMAIN map \cup {station} |->
        IF x = station THEN records ELSE map[x]]

\* global_map.entry(station).and_modify(|e| e.merge(&records)).or_insert(records)
entry_merge(map, station, records) ==
    IF station \in DOMAIN map
    THEN [map EXCEPT ![station] = merge(map[station], records)]
    ELSE [x \in DOMAIN map \cup {station} |->
              IF x = station THEN records ELSE map[x]]

\* for (station_bytes, records) in local_map { .. }
RECURSIVE merge_local(_, _)
merge_local(gmap, lmap) ==
    IF DOMAIN lmap = {} THEN gmap
    ELSE LET k    == CHOOSE x \in DOMAIN lmap : TRUE
             rest == [x \in DOMAIN lmap \ {k} |-> lmap[x]]
         IN  merge_local(entry_merge(gmap, from_utf8_lossy(k), lmap[k]), rest)

\* the for loop under the guard; the guard and local_map drop at the end of
\* the loop body
Merge(w) ==
    /\ pc[w] = "merge"
    /\ lock = w
    /\ global_map' = merge_local(global_map, local_map[w])
    /\ merged' = Append(merged, chunk_start[w])
    /\ local_map' = [local_map EXCEPT ![w] = EmptyMap]
    /\ lock' = 0
    /\ pc' = [pc EXCEPT ![w] = "claim"]
    /\ UNCHANGED <<file, CHUNK_SIZE, CHUNK_OVERLAP, num_threads, offset, arc,
                   main_pc, spawned, ret, result, chunk_start, buffer, chunk,
                   claimed, processed, stderr>>

Init == ParInit /\ RecIdle /\ ScanIdle

Next ==
    \/ Spawn /\ UNCHANGED <<rec_vars, scan_vars>>
    \/ ScopeJoin /\ UNCHANGED <<rec_vars, scan_vars>>
    \/ Unwrap /\ UNCHANGED <<rec_vars, scan_vars>>
    \/ \E w \in Workers : Claim(w) /\ UNCHANGED <<rec_vars, scan_vars>>
    \/ \E w \in Workers : Read(w) /\ UNCHANGED <<rec_vars, scan_vars>>
    \/ \E w \in Workers : Process(w) /\ UNCHANGED <<rec_vars, scan_vars>>
    \/ \E w \in Workers : Lock(w) /\ UNCHANGED <<rec_vars, scan_vars>>
    \/ \E w \in Workers : Merge(w) /\ UNCHANGED <<rec_vars, scan_vars>>

\* the run on a file every read of which succeeds
Spec == Init /\ [][Next]_vars

NextIO ==
    \/ Next
    \/ \E w \in Workers : ReadFail(w) /\ UNCHANGED <<rec_vars, scan_vars>>

\* the run when a positional read can fail
SpecIO == Init /\ [][NextIO]_vars

\* the scheduler runs every thread that can take a step; a positional read
\* returns, with the bytes or with an error; the mutex is not fair.
\* Weak fairness of Process(w) is written out by its definition,
\* []<>(~ENABLED <<A>>_vars) \/ []<><<A>>_vars: the only guard of Process(w)
\* is pc[w] = "trim" and every step of it changes pc[w], so
\* ENABLED <<Process(w)>>_vars is pc[w] = "trim".
Fairness ==
    /\ WF_vars(Spawn /\ UNCHANGED <<rec_vars, scan_vars>>)
    /\ WF_vars(ScopeJoin /\ UNCHANGED <<rec_vars, scan_vars>>)
    /\ WF_vars(Unwrap /\ UNCHANGED <<rec_vars, scan_vars>>)
    /\ \A w \in Workers :
          /\ WF_vars(Claim(w) /\ UNCHANGED <<rec_vars, scan_vars>>)
          /\ WF_vars((Read(w) \/ ReadFail(w)) /\ UNCHANGED <<rec_vars, scan_vars>>)
          /\ \/ []<>(pc[w] # "trim")
             \/ []<><<Process(w) /\ UNCHANGED <<rec_vars, scan_vars>>>>_vars
          /\ WF_vars(Lock(w) /\ UNCHANGED <<rec_vars, scan_vars>>)
          /\ WF_vars(Merge(w) /\ UNCHANGED <<rec_vars, scan_vars>>)

\* the files of the fair runs: the empty file and files of short and long
\* lines, of one chunk and of several
FairLineSet ==
    { <<"A", ";", "1">>,
      <<"A", ";", "1", "2">>,
      <<"C", ";", "1", ";", "2">> }

FairFiles == {JoinLines(ls) : ls \in UNION {[1..k -> FairLineSet] : k \in 0..MaxLines}}

InitFair == Init /\ file \in FairFiles

\* the run under a fair scheduler, reads failing or not
SpecFair == InitFair /\ [][NextIO]_vars /\ Fairness

(***************************************************************************)
(* Records harness: one station's values are consumed in order, cut into   *)
(* non-empty consecutive groups, and the groups are merged in any order.   *)
(***************************************************************************)
TempValues == {0 - 50, 100, 200}

RecInit ==
    /\ rec_vals \in UNION {[1..k -> TempValues] : k \in 1..MaxVals}
    /\ rec_cur = None
    /\ rec_parts = <<>>
    /\ rec_whole = None
    /\ rec_acc = None

\* the next value of the station: Records::new on the first one of a scope,
\* Records::update afterwards
entry_value(r, temp) == IF r = None THEN Some(new(temp)) ELSE Some(update(r[1], temp))

RecUpdate ==
    /\ rec_vals # <<>>
    /\ rec_cur' = entry_value(rec_cur, Head(rec_vals))
    /\ rec_whole' = entry_value(rec_whole, Head(rec_vals))
    /\ rec_vals' = Tail(rec_vals)
    /\ UNCHANGED <<rec_parts, rec_acc>>

\* the chunk ends: its Records becomes one of the groups to merge
RecCut ==
    /\ rec_cur # None
    /\ rec_parts' = Append(rec_parts, rec_cur[1])
    /\ rec_cur' = None
    /\ UNCHANGED <<rec_vals, rec_whole, rec_acc>>

RemoveAt(s, i) == SubSeq(s, 1, i - 1) \o SubSeq(s, i + 1, Len(s))

\* a group is merged into the accumulated entry: or_insert on the first one,
\* Records::merge afterwards
RecMerge ==
    /\ \E i \in 1..Len(rec_parts) :
          /\ rec_acc' = IF rec_acc = None THEN Some(rec_parts[i])
                        ELSE Some(merge(rec_acc[1], rec_parts[i]))
          /\ rec_parts' = RemoveAt(rec_parts, i)
    /\ UNCHANGED <<rec_vals, rec_cur, rec_whole>>

RecNext ==
    \/ RecUpdate /\ UNCHANGED <<par_vars, scan_vars>>
    \/ RecCut /\ UNCHANGED <<par_vars, scan_vars>>
    \/ RecMerge /\ UNCHANGED <<par_vars, scan_vars>>

InitRecords == ParIdle /\ RecInit /\ ScanIdle

SpecRecords == InitRecords /\ [][RecNext]_vars

(***************************************************************************)
(* Newline-scan harness: find_next_newline_simd is applied to a buffer.    *)
(***************************************************************************)
\* the offsets at which the buffers of the harness may carry a newline: the
\* ends of a lane, the starts of the next one, and the scalar tail
ScanPositions == {0, simd_size - 1, simd_size, simd_size + 1,
                  2 * simd_size - 1, 2 * simd_size, 2 * simd_size + 1}

ScanBuffer(len, nls) == [i \in 1..len |-> IF (i - 1) \in nls THEN NL ELSE "a"]

ScanInit ==
    /\ \E len \in 0..MaxBufLen :
          \E nls \in SUBSET {p \in ScanPositions : p < len} :
             scan_buf = ScanBuffer(len, nls)
    /\ scan_res = <<>>

Scan ==
    /\ scan_res = <<>>
    /\ scan_res' = <<find_next_newline_simd(scan_buf)>>
    /\ UNCHANGED scan_buf

ScanNext == Scan /\ UNCHANGED <<par_vars, rec_vars>>

InitScan == ParIdle /\ RecIdle /\ ScanInit

SpecScan == InitScan /\ [][ScanNext]_vars

(***************************************************************************)
(* The file as a sequence of lines, read off the file alone.               *)
(***************************************************************************)
\* the offsets at which a line of the file starts
LineStarts == {s \in 0..(file_size - 1) : s = 0 \/ file[s] = NL}

\* the offset just after the last byte of the line that starts at s
LineEnd(s) == Min({e \in s..file_size : e = file_size \/ file[e + 1] = NL})

LineAt(s) == Slice(file, s, LineEnd(s))

SemiCount(l) == Cardinality({i \in 1..Len(l) : l[i] = SEMI})

LineStation(l) == Slice(l, 0, memchr(SEMI, l)[1])

LineValue(l) == parse_temp(Slice(l, memchr(SEMI, l)[1] + 1, Len(l)))

\* a `station;value` line: one delimiter, valid UTF-8, a value that parses
WellFormedLine(l) ==
    /\ SemiCount(l) = 1
    /\ \A i \in 1..Len(l) : l[i] \notin InvalidBytes
    /\ LineValue(l) # None

\* a line with no delimiter, or whose text after the first one is no number
MalformedLine(l) == SemiCount(l) = 0 \/ LineValue(l) = None

\* every line is well formed, ends with a newline and is no longer than O
WellFormedFile ==
    /\ file_size > 0 => file[file_size] = NL
    /\ \A s \in LineStarts :
          /\ WellFormedLine(LineAt(s))
          /\ LineEnd(s) + 1 - s <= CHUNK_OVERLAP
    /\ CHUNK_SIZE >= CHUNK_OVERLAP

\* every line ends with a newline and, with it, is no longer than O; C >= O
LinesFitOverlap ==
    /\ file_size > 0 => file[file_size] = NL
    /\ \A s \in LineStarts : LineEnd(s) + 1 - s <= CHUNK_OVERLAP
    /\ CHUNK_SIZE >= CHUNK_OVERLAP

\* the statistics of the file's valid lines, station by station
ValidStarts == {s \in LineStarts : ~MalformedLine(LineAt(s))}

StationStarts(st) == {s \in ValidStarts : LineStation(LineAt(s)) = st}

ValueAt(s) == LineValue(LineAt(s))[1]

RECURSIVE SumValues(_)
SumValues(S) ==
    IF S = {} THEN 0
    ELSE LET x == CHOOSE y \in S : TRUE IN ValueAt(x) + SumValues(S \ {x})

FileStatistics ==
    [st \in {LineStation(LineAt(s)) : s \in ValidStarts} |->
        [count |-> Cardinality(StationStarts(st)),
         min   |-> Min({ValueAt(s) : s \in StationStarts(st)}),
         max   |-> Max({ValueAt(s) : s \in StationStarts(st)}),
         sum   |-> SumValues(StationStarts(st))]]

(***************************************************************************)
(* C1.  For every file of well-formed lines, each ending with a newline    *)
(* and none longer than O, with C >= O, the map that process_file_parallel *)
(* returns holds exactly the file's stations, each with the count, min,    *)
(* max and sum of its lines, also when the file is larger than one chunk.  *)
(***************************************************************************)
C1_EndToEnd ==
    (ret = "Ok" /\ WellFormedFile) => result = FileStatistics

(***************************************************************************)
(* C2.  Once every chunk has been worked, the corrected ranges handed to   *)
(* process_chunk are pairwise disjoint and every line of the file lies in  *)
(* exactly one of them (stated for files whose lines fit the overlap).     *)
(***************************************************************************)
Covers(r, s) == r.lo <= s /\ LineEnd(s) <= r.hi

C2_ChunkTiling ==
    (main_pc = "done" /\ LinesFitOverlap) =>
        /\ \A s \in LineStarts :
              Cardinality({r \in processed : Covers(r, s)}) = 1
        /\ \A r1, r2 \in processed :
              r1 # r2 => (r1.hi <= r2.lo \/ r2.hi <= r1.lo)

(***************************************************************************)
(* C3.  No chunk hands a proper fragment of a file line to the record      *)
(* parser: every non-empty slice given to process_chunk starts where a     *)
(* line starts and ends where a line ends, and at the end every line that  *)
(* crosses a nominal chunk boundary lies in exactly one slice (stated for  *)
(* files whose lines fit the overlap).                                     *)
(***************************************************************************)
WholeLines(r) ==
    /\ r.lo \in LineStarts
    /\ r.hi = file_size \/ file[r.hi + 1] = NL

Crossing(s) ==
    \E k \in 1..file_size : s < k * CHUNK_SIZE /\ k * CHUNK_SIZE <= LineEnd(s)

C3_NoFragment ==
    LinesFitOverlap =>
        /\ \A r \in processed : r.lo < r.hi => WholeLines(r)
        /\ main_pc = "done" =>
              \A s \in LineStarts :
                 Crossing(s) =>
                    Cardinality({r \in processed : Covers(r, s)}) = 1

(***************************************************************************)
(* What one worker alone computes: the chunks in ascending order.          *)
(***************************************************************************)
BufferOf(cs) == Slice(file, read_start(cs), read_start(cs) + read_size(cs))

\* the local map of the chunk claimed at cs (empty when it is abandoned)
LocalOf(cs) ==
    LET st == start_trim(cs, BufferOf(cs))
    IN  IF st = None THEN EmptyMap
        ELSE LET r == end_trim(BufferOf(cs), st[1])
             IN  process_chunk(Slice(BufferOf(cs), r.lo, r.hi))

RECURSIVE SequentialRun(_, _)
SequentialRun(cs, gmap) ==
    IF cs >= file_size THEN gmap
    ELSE SequentialRun(cs + CHUNK_SIZE, merge_local(gmap, LocalOf(cs)))

\* the local maps of the chunks cs[1], cs[2], .. merged in that order
RECURSIVE MergeInOrder(_, _)
MergeInOrder(cs, gmap) ==
    IF cs = <<>> THEN gmap
    ELSE MergeInOrder(Tail(cs), merge_local(gmap, LocalOf(Head(cs))))

(***************************************************************************)
(* C4.  With no read failure, the map returned is the same for every       *)
(* interleaving, every assignment of chunks to workers, every merge order  *)
(* and every number of workers: it is the map one worker alone computes.   *)
(***************************************************************************)
C4_ScheduleIndependent ==
    ret = "Ok" => result = SequentialRun(0, EmptyMap)

\* two workers have merged chunks out of ascending order into a map in which
\* a station has Records from more than one chunk
C4_Witness ==
    /\ ret = "Ok"
    /\ num_threads = 2
    /\ \E i, j \in 1..Len(merged) : i < j /\ merged[i] > merged[j]
    /\ \E i, j \in 1..Len(merged) :
          i # j /\ DOMAIN LocalOf(merged[i]) \cap DOMAIN LocalOf(merged[j]) # {}
    /\ \E w1, w2 \in Workers : \E i, j \in 1..Len(claimed) :
          /\ w1 # w2
          /\ claimed[i].worker = w1 /\ claimed[i].start < file_size
          /\ claimed[j].worker = w2 /\ claimed[j].start < file_size

(***************************************************************************)
(* C5.  The chunk_start values handed out by the fetch-add are pairwise    *)
(* distinct multiples of C, whoever claimed them, and the cursor only      *)
(* increases.                                                              *)
(***************************************************************************)
DistinctClaims ==
    /\ \A i, j \in 1..Len(claimed) :
          i # j => claimed[i].start # claimed[j].start
    /\ \A i \in 1..Len(claimed) : claimed[i].start % CHUNK_SIZE = 0

C5_DistinctClaims == []DistinctClaims /\ [][offset' >= offset]_vars

\* both workers have claimed, one of them twice
C5_Witness ==
    \E i, j, k \in 1..Len(claimed) :
        /\ i < j
        /\ claimed[i].worker = claimed[j].worker
        /\ claimed[k].worker # claimed[i].worker

ByteScan(buf) ==
    IF \E i \in 1..Len(buf) : buf[i] = NL
    THEN Some(Min({i \in 1..Len(buf) : buf[i] = NL}) - 1)
    ELSE None

C7_SimdEqualsScalar ==
    scan_res # <<>> => scan_res[1] = ByteScan(scan_buf)

\* a buffer of no whole number of lanes whose first lane has no newline and
\* whose second lane has two, the earlier one in its first byte
C7_Witness ==
    /\ scan_res = <<Some(simd_size)>>
    /\ Len(scan_buf) % simd_size # 0
    /\ Len(scan_buf) >= 2 * simd_size
    /\ scan_buf[simd_size + 2] = NL

(***************************************************************************)
(* C8.  A malformed line (no delimiter, or text after the first delimiter  *)
(* that is no number, a second delimiter included) changes no Records: in  *)
(* the map returned, every station has at least one valid line in the      *)
(* file, so no entry exists for a station whose only lines are malformed   *)
(* (stated for files whose lines fit the overlap).                         *)
(***************************************************************************)
C8_MalformedIgnored ==
    (ret = "Ok" /\ LinesFitOverlap) =>
        \A st \in DOMAIN result :
           \E s \in ValidStarts : from_utf8_lossy(LineStation(LineAt(s))) = st

(***************************************************************************)
(* C9.  A worker whose positional read fails merges nothing for that       *)
(* chunk, claims no further chunk and does not retry; the other workers    *)
(* stop only at a claim at or beyond file_size; the global map keeps what  *)
(* was merged, and process_file_parallel returns Ok with that map.         *)
(***************************************************************************)
Failed(w) == \E i \in 1..Len(stderr) : stderr[i].worker = w

ReadFailureIsLocal ==
    /\ \A w \in Workers :
          Failed(w) =>
             /\ pc[w] = "done"
             /\ \A i \in 1..Len(merged) : merged[i] # chunk_start[w]
             /\ claimed[Max({i \in 1..Len(claimed) : claimed[i].worker = w})].start
                   = chunk_start[w]
             /\ Cardinality({i \in 1..Len(stderr) : stderr[i].worker = w}) = 1
    /\ \A w \in Workers :
          (pc[w] = "done" /\ ~Failed(w)) => chunk_start[w] >= file_size
    /\ global_map = MergeInOrder(merged, EmptyMap)
    /\ main_pc = "done" => (ret = "Ok" /\ result = global_map)

KeepsContributions ==
    \A st \in DOMAIN global_map :
        /\ st \in DOMAIN global_map'
        /\ global_map'[st].count >= global_map[st].count

C9_ReadFailureIsLocal ==
    []ReadFailureIsLocal /\ [][KeepsContributions]_vars

\* one of two workers failed on a chunk, the other one merged a later chunk,
\* and the run returned Ok with entries in the map
C9_Witness ==
    /\ ret = "Ok"
    /\ result # EmptyMap
    /\ \E w \in Workers :
          /\ Failed(w)
          /\ \E i \in 1..Len(merged) : merged[i] > chunk_start[w]

(***************************************************************************)
(* C10.  The shared map is unwrapped only after every worker has left its  *)
(* loop: from then on no worker runs, nobody holds the lock, the main      *)
(* thread's is the only reference (the try_unwrap never fails) and the     *)
(* global map no longer changes.                                           *)
(***************************************************************************)
ReadoutAfterWorkers ==
    /\ main_pc \in {"unwrap", "done"} =>
          /\ \A w \in 1..num_threads : pc[w] = "done"
          /\ arc = 1
          /\ lock = 0
    /\ ret # "panic"
    /\ main_pc = "done" => result = global_map

NoMergeAfterReadout ==
    main_pc \in {"unwrap", "done"} => global_map' = global_map

C10_ReadoutAfterWorkers ==
    []ReadoutAfterWorkers /\ [][NoMergeAfterReadout]_vars

\* the map has been read out after two workers merged chunks into it
C10_Witness ==
    /\ main_pc = "done"
    /\ ret = "Ok"
    /\ num_threads = 2
    /\ \E i, j \in 1..Len(claimed) :
          /\ claimed[i].worker # claimed[j].worker
          /\ \E m, n \in 1..Len(merged) :
                m # n /\ merged[m] = claimed[i].start /\ merged[n] = claimed[j].start

(***************************************************************************)
(* C11.  Station identity is byte-exact through to the output: station     *)
(* byte sequences that differ in any byte are accounted under different    *)
(* keys of the global map, invalid UTF-8 bytes included, so the map has    *)
(* one key per distinct station byte sequence that was merged.             *)
(***************************************************************************)
\* the station byte sequences of the local maps merged so far
MergedStations == UNION {DOMAIN LocalOf(merged[i]) : i \in 1..Len(merged)}

C11_ByteExactKeys ==
    ret = "Ok" =>
        /\ \A k1, k2 \in MergedStations :
              k1 # k2 => from_utf8_lossy(k1) # from_utf8_lossy(k2)
        /\ Cardinality(DOMAIN result) = Cardinality(MergedStations)

(***************************************************************************)
(* C12.  Records::merge is commutative and associative on count, min, max  *)
(* and sum: for all Records a, b, c, merging b into a gives what merging a *)
(* into b gives, and (a with b) with c gives what a with (b with c) gives. *)
(***************************************************************************)
\* the Records at hand: the finished groups, the group being built, the
\* groups merged so far and the Records of the whole sequence
RecordsAtHand ==
    {rec_parts[i] : i \in 1..Len(rec_parts)}
      \cup {rec_cur[i] : i \in 1..Len(rec_cur)}
      \cup {rec_acc[i] : i \in 1..Len(rec_acc)}
      \cup {rec_whole[i] : i \in 1..Len(rec_whole)}

C12_MergeCommutesAssociates ==
    \A a, b, c \in RecordsAtHand :
        /\ merge(a, b) = merge(b, a)
        /\ merge(merge(a, b), c) = merge(a, merge(b, c))

\* three groups with pairwise different minima and maxima
C12_Witness ==
    \E a, b, c \in RecordsAtHand :
        /\ a.min < b.min /\ b.min < c.min
        /\ a.max < b.max /\ b.max < c.max
        /\ a.count + b.count + c.count >= 4

(***************************************************************************)
(* C13.  Every Records in a chunk-local map, in the global map or in the   *)
(* returned map has count >= 1, min <= max and min <= sum / count <= max,  *)
(* the mean taken in exact arithmetic (count * min <= sum <= count * max). *)
(***************************************************************************)
RecordsInvariant(r) ==
    /\ r.count >= 1
    /\ r.min <= r.max
    /\ r.count * r.min <= r.sum
    /\ r.sum <= r.count * r.max

BufferEnd(cs) == read_start(cs) + read_size(cs)

C14_StartInOverlap ==
    LinesFitOverlap =>
        \A r \in processed :
           r.start # 0 =>
              /\ r.lo - 1 \in (r.start - CHUNK_OVERLAP)..(r.start - 1)
              /\ file[r.lo] = NL
              /\ \A s \in LineStarts :
                    (s >= r.start /\ LineEnd(s) < BufferEnd(r.start)) => r.lo <= s

(***************************************************************************)
(* C15.  A chunk with chunk_start != 0 whose overlap window (the first O   *)
(* bytes of its buffer) holds no newline is abandoned: no line of it is    *)
(* processed and nothing is merged for it, even when later bytes of the    *)
(* buffer do hold newlines.                                                *)
(***************************************************************************)
NoNewlineInOverlap(cs) ==
    \A i \in (cs - CHUNK_OVERLAP)..(cs - 1) : file[i + 1] # NL

C15_Abandonment ==
    \A i \in 1..Len(merged) :
        (merged[i] # 0 /\ NoNewlineInOverlap(merged[i])) =>
            LocalOf(merged[i]) = EmptyMap

(***************************************************************************)
(* C16.  No input line is lost at the end of the file: when the whole file *)
(* fits in the first chunk, every line of it, the last one included, lies  *)
(* in the slice handed to process_chunk, whether or not the file ends with *)
(* a newline.                                                              *)
(***************************************************************************)
C16_LastLineCounted ==
    (main_pc = "done" /\ file_size > 0 /\ file_size <= CHUNK_SIZE) =>
        \A s \in LineStarts : \E r \in processed : Covers(r, s)

(***************************************************************************)
(* C17.  At most one worker holds the global-map lock; the global map      *)
(* changes only in a step of the holder, which merges the whole local map  *)
(* of one chunk and releases the lock in that step; the lock is taken once *)
(* per processed chunk, and a worker that claims or reads holds no lock.   *)
(***************************************************************************)
Holders == {w \in Workers : pc[w] = "merge"}

MutualExclusion ==
    /\ Cardinality(Holders) <= 1
    /\ \A w \in Workers : lock = w <=> pc[w] = "merge"
    /\ lock \in {0} \cup Workers
    /\ Cardinality(processed)
          = Len(merged) + Cardinality({w \in Workers : pc[w] \in {"lock", "merge"}})
    /\ \A i, j \in 1..Len(merged) : i # j => merged[i] # merged[j]

MergeUnderLock ==
    /\ global_map' # global_map =>
          /\ lock # 0
          /\ pc[lock] = "merge"
          /\ global_map' = merge_local(global_map, local_map[lock])
          /\ merged' = Append(merged, chunk_start[lock])
          /\ lock' = 0
          /\ pc'[lock] = "claim"
    /\ \A w \in Workers : pc'[w] \in {"claim", "read", "trim"} => lock' # w

C17_MutualExclusion == []MutualExclusion /\ [][MergeUnderLock]_vars

\* one worker holds the lock with a non-empty local map while the other one
\* waits for it
C17_Witness ==
    \E w1, w2 \in Workers :
        /\ lock = w1 /\ pc[w1] = "merge" /\ local_map[w1] # EmptyMap
        /\ pc[w2] = "lock" /\ local_map[w2] # EmptyMap

(***************************************************************************)
(* C18.  Under fair scheduling every worker leaves its loop: it works no   *)
(* chunk whose chunk_start is at or beyond file_size, it stops at its      *)
(* first such claim (or at a failed read), a worker that waits for the     *)
(* lock gets it, and process_file_parallel returns; abandoned chunks and   *)
(* read failures do not prevent this.                                      *)
(***************************************************************************)
StopsAtEnd ==
    /\ \A w \in Workers :
          pc[w] \in {"read", "trim", "lock", "merge"} => chunk_start[w] < file_size
    /\ \A r \in processed : r.start < file_size
    /\ \A w \in Workers :
          Cardinality({i \in 1..Len(claimed) :
              claimed[i].worker = w /\ claimed[i].start >= file_size}) <= 1

C18_Termination ==
    /\ []StopsAtEnd
    /\ <>(main_pc = "done" /\ ret = "Ok" /\ \A w \in 1..num_threads : pc[w] = "done")
    /\ \A w \in Workers : (pc[w] = "lock") ~> (pc[w] = "merge")

\* the run has returned although one chunk was abandoned and one read failed
C18_Witness ==
    /\ main_pc = "done"
    /\ stderr # <<>>
    /\ \E i \in 1..Len(claimed) :
          /\ claimed[i].start < file_size
          /\ \A r \in processed : r.start # claimed[i].start
          /\ \A w \in Workers : Failed(w) => chunk_start[w] # claimed[i].start


(***************************************************************************)
(* C19: the read range stays inside the file and the buffer.               *)
(***************************************************************************)
\* the buffer allocated by each worker: vec![0u8; CHUNK_SIZE + CHUNK_OVERLAP]
buffer_capacity == CHUNK_SIZE + CHUNK_OVERLAP

ReadRangeInFile(cs) ==
    /\ read_start(cs) >= 0
    /\ read_size(cs) >= 1
    /\ read_size(cs) <= buffer_capacity
    /\ read_start(cs) + read_size(cs) <= file_size

\* C19: with C >= O, every claimed chunk_start < file_size has read_start >= 0,
\* 1 <= read_size <= C + O and read_start + read_size <= file_size, and the
\* exact-length read fills the buffer slice with exactly these bytes of the file
C19_ReadRangeInFile ==
    CHUNK_SIZE >= CHUNK_OVERLAP =>
        /\ \A i \in 1..Len(claimed) :
              claimed[i].start < file_size => ReadRangeInFile(claimed[i].start)
        /\ \A w \in Workers :
              pc[w] = "trim" =>
                  /\ Len(buffer[w]) = read_size(chunk_start[w])
                  /\ \A j \in 1..Len(buffer[w]) :
                        buffer[w][j] = file[read_start(chunk_start[w]) + j]

\* a read of a later chunk that starts in the overlap and is clamped to the
\* end of the file, and an earlier read of full capacity
C19_Witness ==
    /\ CHUNK_SIZE >= CHUNK_OVERLAP
    /\ \E w \in Workers :
          /\ pc[w] = "trim"
          /\ chunk_start[w] # 0
          /\ read_start(chunk_start[w]) = chunk_start[w] - CHUNK_OVERLAP
          /\ read_size(chunk_start[w]) < buffer_capacity
          /\ read_start(chunk_start[w]) + read_size(chunk_start[w]) = file_size
    /\ \E i \in 1..Len(claimed) :
          /\ claimed[i].start < file_size
          /\ read_size(claimed[i].start) = buffer_capacity

(***************************************************************************)
(* C20: chunk coverage.                                                    *)
(***************************************************************************)
\* the nominal chunk starts k*C below file_size
NominalStarts == {k * CHUNK_SIZE : k \in 0..file_size} \cap 0..(file_size - 1)

ClaimsOf(s) == {i \in 1..Len(claimed) : claimed[i].start = s}

FinalClaims(w) ==
    {i \in 1..Len(claimed) : claimed[i].worker = w /\ claimed[i].start >= file_size}

\* ceil(file_size / CHUNK_SIZE)
CeilChunks == (file_size + CHUNK_SIZE - 1) \div CHUNK_SIZE

AllWorkersTerminated ==
    /\ main_pc \in {"unwrap", "done"}
    /\ \A w \in 1..num_threads : pc[w] = "done"

\* C20: when no read fails and all workers have terminated, every nominal
\* chunk start k*C < file_size has been claimed exactly once, nothing else
\* below file_size has been claimed, each worker made exactly one final claim
\* at or beyond file_size, and the cursor is C * (ceil(file_size / C) + workers)
C20_ChunkCoverage ==
    AllWorkersTerminated =>
        /\ \A s \in NominalStarts : Cardinality(ClaimsOf(s)) = 1
        /\ \A i \in 1..Len(claimed) :
              claimed[i].start < file_size => claimed[i].start \in NominalStarts
        /\ \A w \in 1..num_threads : Cardinality(FinalClaims(w)) = 1
        /\ offset = CHUNK_SIZE * (CeilChunks + num_threads)

\* two workers have terminated after sharing a file of several chunks whose
\* size is not a multiple of C
C20_Witness ==
    /\ AllWorkersTerminated
    /\ num_threads = 2
    /\ Cardinality(NominalStarts) >= 3
    /\ file_size % CHUNK_SIZE # 0
    /\ \A w \in 1..2 : \E i \in 1..Len(claimed) :
          claimed[i].worker = w /\ claimed[i].start < file_size

====
